---- MODULE Spec2Model ----
(***************************************************************************)
(* Ingestion orchestrator of the data collector agent: the control thread  *)
(* that calls DataCollectorAgent.start()/stop(), the Collection Loop       *)
(* threads (BaseDataCollector.run), the fan-in queue (queue.Queue) and the *)
(* Queue Drain Worker threads (DataCollectorAgent._process_data_queue).    *)
(* Every thread takes one step per statement that reads or writes shared   *)
(* state; the interleaving of the steps is arbitrary.                      *)
(***************************************************************************)
EXTENDS Naturals, Integers, Sequences, FiniteSets, TLC

\* ---------------------------------------------------------------- bounds
\* start() calls that get past the running check
MaxStarts == 2
\* records returned by production calls, over all loops
MaxRecords == 2
\* records of one production result
MaxBatchLen == 2
\* production calls of the loop whose cycles are timed
MaxCycles == 3
\* the longest interval setting, in time units
MaxInterval == 2
\* the longest a production call takes, in time units
MaxDuration == 3
\* elements of a list value
MaxListLen == 2
\* store_data calls on the relational sink
MaxStores == 2
\* categories of the configuration start() is followed over
MaxCategories == 2
\* collector entries of a category
MaxEntries == 2
\* store_data calls on the file or CSV sink
MaxFileStores == 2
\* seconds that pass while they are made
MaxSeconds == 1

\* the collector entries of the configuration, in file order: the "enabled" setting
\* of each (one category, itself enabled; the config is never written after __init__)
Config == <<TRUE, FALSE>>

Keys == 1..Len(Config)
Gens == 1..MaxStarts
\* a collector object: the entry it was built for and the start() that built it
Insts == Gens \X Keys
\* a drain worker thread: the start() that spawned it
Workers == Gens
\* a record: the production call that returned it (named by the number of records
\* returned before it) and its place in the result
Records == (0..(MaxRecords - 1)) \X (1..MaxBatchLen)
NoOne == 0
NoRec == <<MaxRecords, 0>>

VARIABLES
    running,        \* DataCollectorAgent.running
    data_queue,     \* DataCollectorAgent.data_queue
    collectors,     \* DataCollectorAgent.collectors: entry -> start() that built its collector, 0 if none
    lock,           \* DataCollectorAgent.lock: the worker that holds it, NoOne if free
    gen,            \* start() calls that got past the running check
    cpc,            \* control thread: where it is in start()/stop()
    ckey,           \* control thread: the entry its for-loop is at
    c_running,      \* BaseDataCollector.running of each collector object
    lpc,            \* each Collection Loop thread: where it is in run()
    pending,        \* each Collection Loop: the records of its result still to put
    nrec,           \* records returned by production calls so far
    wpc,            \* each Drain Worker thread: where it is in _process_data_queue
    wrec,           \* each Drain Worker: the record it dequeued
    deqLog,         \* the records in the order they left the queue
    storeLog,       \* the records in the order their store_data call began
    produced,       \* the records production calls have returned
    stopSnap,       \* the records that were in the queue when stop() was last called
    interval,       \* BaseDataCollector.interval of the timed loop
    now,            \* time.monotonic()
    last_collection_time,   \* BaseDataCollector._last_collection_time of the timed loop
    sleep_time,     \* the sleep_time last computed by _sleep_until_next_interval
    cycles,         \* production calls the timed loop has made
    failures,       \* those of them that raised
    call,           \* the last production call: its result, the queue and nrec when it was made
    hist,           \* start time and duration of the production calls, oldest first
    content,        \* the dict of each record, as it was put on the queue
    passed,         \* the store_data calls of the agent: the record and the dict handed over
    outcomes,       \* how those calls ended, in order: "ok" or "fail"
    tables,         \* the database: table name -> columns and their types
    creator,        \* table name -> the record of the store_data call that created the table
    rows,           \* the rows committed: table name and the columns given a value
    spc,            \* the store_data call of the relational sink: where it is
    srec,           \* its argument
    sschema,        \* its table_schema
    conn_out,       \* connections taken from the pool and not put back
    ncalls,         \* store_data calls made on the relational sink
    fault,          \* where the database or the pool fails during the call, if anywhere
    sinsert,        \* the INSERT the call executed: table, and the value bound to each column
    cfg,            \* DataCollectorAgent.config["collectors"]: the categories and their items, in order
    spos,           \* start(): the category and the item its loops are at
    sphase,         \* start(): not called, running, returned or raised
    scollectors,    \* the keys of DataCollectorAgent.collectors
    sloops,         \* the keys of the collectors whose thread was started, in order
    storage_type,   \* DataStorage.storage_type
    files,          \* the files under data_dir: path -> content
    fclock,         \* datetime.now(), in whole seconds
    fcalls,         \* the store_data calls made on the DataStorage: dict, outcome and path
    tpc,            \* each of the threads that call start() at the same time: where it is in start()
    tkey            \* each of them: the entry its for-loop is at

\* the state of the loop whose cycles are counted and timed
timeVars == <<interval, now, last_collection_time, sleep_time, cycles, failures, call, hist>>

\* the records on their way through _process_data
sinkVars == <<content, passed, outcomes>>

\* PostgresDataStorage and its database
dbVars == <<tables, creator, rows, spc, srec, sschema, conn_out, ncalls, fault, sinsert>>

\* start() run over a configuration of categories
cfgVars == <<cfg, spos, sphase, scollectors, sloops>>

\* DataStorage and the files it writes
fsVars == <<storage_type, files, fclock, fcalls>>

\* start() called from several threads at once
raceVars == <<tpc, tkey>>

vars == <<running, data_queue, collectors, lock, gen, cpc, ckey, c_running,
          lpc, pending, nrec, wpc, wrec, deqLog, storeLog, produced, stopSnap,
          timeVars, sinkVars, dbVars, cfgVars, fsVars, raceVars>>

ctlVars == <<running, collectors, gen, cpc, ckey>>
loopVars == <<c_running, lpc, pending, nrec, produced>>
workVars == <<wpc, wrec, lock, deqLog, storeLog>>

Range(s) == {s[n] : n \in 1..Len(s)}

Min(S) == CHOOSE x \in S : \A y \in S : x <= y

\* _start_collectors, lines 103-105: the next entry after k that is not skipped, 0 if none
NextEnabled(k) ==
    LET rest == {j \in Keys : j > k /\ Config[j]} IN
    IF rest = {} THEN 0 ELSE Min(rest)

\* stop(), line 154: the next entry of the collectors dict after k, 0 if none
NextEntry(k) ==
    LET rest == {j \in Keys : j > k /\ collectors[j] # 0} IN
    IF rest = {} THEN 0 ELSE Min(rest)

\* ---------------------------------------------------------------- __init__
\* DataCollectorAgent.__init__: nothing runs, the queue is empty
AgentInit ==
    /\ running = FALSE
    /\ data_queue = <<>>
    /\ collectors = [k \in Keys |-> 0]
    /\ lock = NoOne
    /\ gen = 0
    /\ cpc = "idle"
    /\ ckey = 0
    /\ c_running = [i \in Insts |-> FALSE]
    /\ lpc = [i \in Insts |-> "unborn"]
    /\ pending = [i \in Insts |-> <<>>]
    /\ nrec = 0
    /\ wpc = [w \in Workers |-> "unborn"]
    /\ wrec = [w \in Workers |-> NoRec]
    /\ deqLog = <<>>
    /\ storeLog = <<>>
    /\ produced = {}
    /\ stopSnap = {}

\* no loop is being timed: the clock stands still
TimeIdle ==
    /\ interval = 1
    /\ now = 0
    /\ last_collection_time = 0
    /\ sleep_time = 0
    /\ cycles = 0
    /\ failures = 0
    /\ call = <<>>
    /\ hist = <<>>

\* the dicts of the records are not looked at
SinkIdle ==
    /\ content = [r \in Records |-> <<>>]
    /\ passed = <<>>
    /\ outcomes = <<>>

\* the relational sink is not called
DbIdle ==
    /\ tables = <<>>
    /\ creator = <<>>
    /\ rows = <<>>
    /\ spc = "idle"
    /\ srec = <<>>
    /\ sschema = <<>>
    /\ conn_out = 0
    /\ ncalls = 0
    /\ fault = "none"
    /\ sinsert = <<>>

\* start() is followed over the two entries of Config only
CfgIdle ==
    /\ cfg = <<>>
    /\ spos = <<0, 0>>
    /\ sphase = "idle"
    /\ scollectors = {}
    /\ sloops = <<>>

\* the file and CSV sinks are not called
FsIdle ==
    /\ storage_type = "file"
    /\ files = <<>>
    /\ fclock = 0
    /\ fcalls = <<>>

\* the threads that call start(): one per start() the model allows
Callers == Gens

\* start() is called from the control thread only
RaceIdle ==
    /\ tpc = [c \in Callers |-> "none"]
    /\ tkey = [c \in Callers |-> 0]

\* what the model of the threads leaves alone
extVars == <<timeVars, sinkVars, dbVars, cfgVars, fsVars, raceVars>>

Init == AgentInit /\ TimeIdle /\ SinkIdle /\ DbIdle /\ CfgIdle /\ FsIdle /\ RaceIdle

\* ---------------------------------------------------------------- control thread
\* the control thread calls start(); the calls that get past the running check are counted
CallStart ==
    /\ cpc = "idle"
    /\ running \/ gen < MaxStarts
    /\ cpc' = "start_check"
    /\ UNCHANGED <<running, collectors, gen, ckey, data_queue, loopVars, workVars, stopSnap>>

\* start() without its running check: every call goes on to start threads
StartCheckNoGuard ==
    /\ cpc = "start_check"
    /\ gen < MaxStarts
    /\ running' = TRUE
    /\ gen' = gen + 1
    /\ cpc' = "start_proc"
    /\ UNCHANGED <<collectors, ckey, data_queue, loopVars, workVars, stopSnap>>

\* start(), lines 131-135: a call on a running agent goes to the warning;
\* otherwise the flag is set (no other thread writes it in between)
StartCheck ==
    /\ cpc = "start_check"
    /\ IF running
       THEN /\ cpc' = "start_warn"
            /\ UNCHANGED <<running, gen>>
       ELSE /\ running' = TRUE
            /\ gen' = gen + 1
            /\ cpc' = "start_proc"
    /\ UNCHANGED <<collectors, ckey, data_queue, loopVars, workVars, stopSnap>>

\* start(), lines 132-133: the warning is logged and the call returns
StartWarn ==
    /\ cpc = "start_warn"
    /\ cpc' = "idle"
    /\ UNCHANGED <<running, collectors, gen, ckey, data_queue, loopVars, workVars, stopSnap>>

\* start(), lines 138-139: a new processor thread, whatever became of the earlier ones
StartProcessor ==
    /\ cpc = "start_proc"
    /\ wpc' = [wpc EXCEPT ![gen] = "while"]
    /\ ckey' = NextEnabled(0)
    /\ cpc' = IF NextEnabled(0) = 0 THEN "idle" ELSE "start_coll"
    /\ UNCHANGED <<running, collectors, gen, data_queue, loopVars,
                   wrec, lock, deqLog, storeLog, stopSnap>>

\* start() and _start_collectors, lines 142-147 and 103-127, one enabled entry per
\* step: a new collector object (running = False) replaces the entry's old one in
\* the dict and gets its own thread; after the last entry start() returns
StartCollector ==
    /\ cpc = "start_coll"
    /\ collectors' = [collectors EXCEPT ![ckey] = gen]
    /\ c_running' = [c_running EXCEPT ![<<gen, ckey>>] = FALSE]
    /\ lpc' = [lpc EXCEPT ![<<gen, ckey>>] = "run"]
    /\ ckey' = NextEnabled(ckey)
    /\ cpc' = IF NextEnabled(ckey) = 0 THEN "idle" ELSE "start_coll"
    /\ UNCHANGED <<running, gen, data_queue, pending, nrec, produced, workVars,
                   stopSnap>>

\* stop(), line 151
StopFlag ==
    /\ cpc = "idle"
    /\ running' = FALSE
    /\ stopSnap' = Range(data_queue)
    /\ ckey' = NextEntry(0)
    /\ cpc' = IF NextEntry(0) = 0 THEN "idle" ELSE "stop_coll"
    /\ UNCHANGED <<collectors, gen, data_queue, loopVars, workVars>>

\* stop(), lines 154-157, one dict entry per step: collector.stop() (base.py 68)
\* on the object the dict holds now; after the last entry stop() returns
StopCollector ==
    /\ cpc = "stop_coll"
    /\ c_running' = [c_running EXCEPT ![<<collectors[ckey], ckey>>] = FALSE]
    /\ ckey' = NextEntry(ckey)
    /\ cpc' = IF NextEntry(ckey) = 0 THEN "idle" ELSE "stop_coll"
    /\ UNCHANGED <<running, collectors, gen, data_queue, lpc, pending, nrec, produced,
                   workVars, stopSnap>>

\* ---------------------------------------------------------------- Collection Loop
\* what collect_data() can hand back: an exception, None, a dict (of res[2] records:
\* the empty dict holds none), a list of res[2] dicts
ProduceResults ==
    {<<"fail", 0>>, <<"none", 0>>, <<"record", 0>>, <<"record", 1>>}
        \cup {<<"list", n>> : n \in 0..MaxBatchLen}

\* run(), line 41: `if data`, false for None, {} and []
Truthy(res) == res[1] \in {"record", "list"} /\ res[2] > 0

\* a loop that puts a list result as one item
FanOutWhole(res, b) ==
    IF res[1] = "fail" \/ ~Truthy(res) THEN <<>> ELSE << <<b, 1>> >>

\* run(), lines 40-48: the records put for one result, in order; b names the call
FanOut(res, b) ==
    IF res[1] = "fail" THEN <<>>
    ELSE IF ~Truthy(res) THEN <<>>
    ELSE IF res[1] = "list" THEN [j \in 1..res[2] |-> <<b, j>>]
    ELSE << <<b, 1>> >>

\* a loop that ends after a production step that put nothing
AfterProduceExit(i) == "done"

\* a loop that looks at its flag again before it sleeps
AfterProduceChecked(i) == IF c_running[i] THEN "sleep" ELSE "done"

\* run(), line 51: what follows the production step and its puts
AfterProduce(i) == "sleep"

\* run(), lines 34-36
RunInit(i) ==
    /\ lpc[i] = "run"
    /\ c_running' = [c_running EXCEPT ![i] = TRUE]
    /\ lpc' = [lpc EXCEPT ![i] = "top"]
    /\ UNCHANGED <<ctlVars, data_queue, pending, nrec, produced, workVars, stopSnap>>

\* run(), line 38
LoopTop(i) ==
    /\ lpc[i] = "top"
    /\ lpc' = [lpc EXCEPT ![i] = IF c_running[i] THEN "collect" ELSE "done"]
    /\ UNCHANGED <<ctlVars, data_queue, c_running, pending, nrec, produced, workVars,
                   stopSnap>>

\* run(), lines 40-42 and 47-48: collect_data() returns res (or raises)
CollectRes(i, res) ==
    /\ lpc[i] = "collect"
    /\ LET out == FanOut(res, nrec) IN
         IF out = <<>>
         THEN /\ lpc' = [lpc EXCEPT ![i] = AfterProduce(i)]
              /\ UNCHANGED <<pending, nrec, produced>>
         ELSE /\ nrec + Len(out) <= MaxRecords
              /\ nrec' = nrec + Len(out)
              /\ produced' = produced \cup Range(out)
              /\ pending' = [pending EXCEPT ![i] = out]
              /\ lpc' = [lpc EXCEPT ![i] = "put"]
    /\ UNCHANGED <<ctlVars, data_queue, c_running, workVars, stopSnap>>

Collect(i) == \E res \in ProduceResults : CollectRes(i, res)

\* a queue of capacity 1 whose put gives up when it is full
QueuePutBounded(q, r) == IF Len(q) >= 1 THEN q ELSE Append(q, r)

\* queue.Queue.put on the unbounded queue of agent.py line 39
QueuePut(q, r) == Append(q, r)

\* run(), line 44 or 46: one put
Put(i) ==
    /\ lpc[i] = "put"
    /\ data_queue' = QueuePut(data_queue, Head(pending[i]))
    /\ pending' = [pending EXCEPT ![i] = Tail(pending[i])]
    /\ lpc' = [lpc EXCEPT ![i] = IF Tail(pending[i]) = <<>> THEN AfterProduce(i) ELSE "put"]
    /\ UNCHANGED <<ctlVars, c_running, nrec, produced, workVars, stopSnap>>

\* run(), lines 51-52 and _sleep_until_next_interval: the sleep ends
Sleep(i) ==
    /\ lpc[i] = "sleep"
    /\ lpc' = [lpc EXCEPT ![i] = "top"]
    /\ UNCHANGED <<ctlVars, data_queue, c_running, pending, nrec, produced, workVars,
                   stopSnap>>

\* ---------------------------------------------------------------- Drain Worker
\* _process_data_queue, line 161, left operand
WhileRunning(w) ==
    /\ wpc[w] = "while"
    /\ wpc' = [wpc EXCEPT ![w] = IF running THEN "get" ELSE "empty"]
    /\ UNCHANGED <<ctlVars, data_queue, loopVars, wrec, lock, deqLog, storeLog,
                   stopSnap>>

\* _process_data_queue, line 161, right operand
WhileEmpty(w) ==
    /\ wpc[w] = "empty"
    /\ wpc' = [wpc EXCEPT ![w] = IF data_queue # <<>> THEN "get" ELSE "done"]
    /\ UNCHANGED <<ctlVars, data_queue, loopVars, wrec, lock, deqLog, storeLog,
                   stopSnap>>

\* a get() that hands over the head of the queue and leaves it there
GetPeek(w) ==
    /\ wpc[w] = "get"
    /\ data_queue # <<>>
    /\ wrec' = [wrec EXCEPT ![w] = Head(data_queue)]
    /\ deqLog' = Append(deqLog, Head(data_queue))
    /\ wpc' = [wpc EXCEPT ![w] = "process"]
    /\ UNCHANGED <<ctlVars, data_queue, loopVars, lock, storeLog, stopSnap>>

\* _process_data_queue, line 163: get() hands over the head of the queue
Get(w) ==
    /\ wpc[w] = "get"
    /\ data_queue # <<>>
    /\ wrec' = [wrec EXCEPT ![w] = Head(data_queue)]
    /\ data_queue' = Tail(data_queue)
    /\ deqLog' = Append(deqLog, Head(data_queue))
    /\ wpc' = [wpc EXCEPT ![w] = "process"]
    /\ UNCHANGED <<ctlVars, loopVars, lock, storeLog, stopSnap>>

\* _process_data_queue, lines 163 and 167-168: get() times out on the empty queue
GetTimeout(w) ==
    /\ wpc[w] = "get"
    /\ data_queue = <<>>
    /\ wpc' = [wpc EXCEPT ![w] = "while"]
    /\ UNCHANGED <<ctlVars, data_queue, loopVars, wrec, lock, deqLog, storeLog,
                   stopSnap>>

\* a lock that is handed out whether or not it is held
LockFreeAlways == TRUE

\* threading.Lock.acquire of agent.py line 182: only a free lock is taken
LockFree == lock = NoOne

\* _process_data, lines 176-183: the lock is taken and store_data is called
ProcessData(w) ==
    /\ wpc[w] = "process"
    /\ LockFree
    /\ lock' = w
    /\ storeLog' = Append(storeLog, wrec[w])
    /\ wpc' = [wpc EXCEPT ![w] = "store"]
    /\ UNCHANGED <<ctlVars, data_queue, loopVars, wrec, deqLog, stopSnap>>

\* how a store_data call ends: it returns, or it raises
StoreOutcomes == {"ok", "fail"}

\* a worker that lets the exception of store_data end its thread
AfterStoreRaise(o) == IF o = "fail" THEN "done" ELSE "while"

\* _process_data, lines 187-188, and _process_data_queue, line 165: the exception
\* is logged inside _process_data, which returns normally either way
AfterStore(o) == "while"

\* _process_data, lines 183-188, and line 165: store_data ends with o, the lock
\* is released, the worker goes back to its loop
StoreReturnRes(w, o) ==
    /\ wpc[w] = "store"
    /\ lock' = NoOne
    /\ wrec' = [wrec EXCEPT ![w] = NoRec]
    /\ wpc' = [wpc EXCEPT ![w] = AfterStore(o)]
    /\ UNCHANGED <<ctlVars, data_queue, loopVars, deqLog, storeLog, stopSnap>>

StoreReturn(w) == \E o \in StoreOutcomes : StoreReturnRes(w, o)

\* ---------------------------------------------------------------- specification
Control ==
    /\ CallStart \/ StartCheck \/ StartWarn \/ StartProcessor \/ StartCollector \/ StopFlag \/ StopCollector
    /\ UNCHANGED extVars

Loop(i) ==
    /\ RunInit(i) \/ LoopTop(i) \/ Collect(i) \/ Put(i) \/ Sleep(i)
    /\ UNCHANGED extVars

Worker(w) ==
    /\ WhileRunning(w) \/ WhileEmpty(w) \/ Get(w) \/ GetTimeout(w) \/ ProcessData(w) \/ StoreReturn(w)
    /\ UNCHANGED extVars

Next ==
    \/ CallStart /\ UNCHANGED extVars
    \/ StartCheck /\ UNCHANGED extVars
    \/ StartWarn /\ UNCHANGED extVars
    \/ StartProcessor /\ UNCHANGED extVars
    \/ StartCollector /\ UNCHANGED extVars
    \/ StopFlag /\ UNCHANGED extVars
    \/ StopCollector /\ UNCHANGED extVars
    \/ \E i \in Insts : RunInit(i) /\ UNCHANGED extVars
    \/ \E i \in Insts : LoopTop(i) /\ UNCHANGED extVars
    \/ \E i \in Insts : Collect(i) /\ UNCHANGED extVars
    \/ \E i \in Insts : Put(i) /\ UNCHANGED extVars
    \/ \E i \in Insts : Sleep(i) /\ UNCHANGED extVars
    \/ \E w \in Workers : WhileRunning(w) /\ UNCHANGED extVars
    \/ \E w \in Workers : WhileEmpty(w) /\ UNCHANGED extVars
    \/ \E w \in Workers : Get(w) /\ UNCHANGED extVars
    \/ \E w \in Workers : GetTimeout(w) /\ UNCHANGED extVars
    \/ \E w \in Workers : ProcessData(w) /\ UNCHANGED extVars
    \/ \E w \in Workers : StoreReturn(w) /\ UNCHANGED extVars

Spec == Init /\ [][Next]_vars

\* the steps of a start() or stop() call that is under way
CallInProgress ==
    /\ StartCheck \/ StartWarn \/ StartProcessor \/ StartCollector \/ StopCollector
    /\ UNCHANGED extVars

\* every started thread keeps being scheduled, every production call, sleep,
\* dequeue wait and store call returns, and a start() or stop() call that was made
\* runs to its end; nothing obliges the caller to make another call
FairSpec ==
    /\ Spec
    /\ WF_vars(CallInProgress)
    /\ \A i \in Insts : WF_vars(Loop(i))
    /\ \A w \in Workers : WF_vars(Worker(w))

\* ---------------------------------------------------------------- one timed loop
\* A collector run on its own: its run() in a thread, stop() called from outside,
\* nothing taking records out of its queue.  Time is counted in whole units; it
\* passes inside collect_data() and inside time.sleep() only.
TimedLoop == <<1, 1>>
Intervals == 1..MaxInterval
Durations == 0..MaxDuration

\* what the timed loop leaves alone
loopRest == <<sinkVars, dbVars, cfgVars, fsVars, raceVars>>

\* the collector was constructed at time 0 (base.py 24-27); its thread is started
\* at time 1
LoopInit ==
    /\ running = FALSE
    /\ data_queue = <<>>
    /\ collectors = [k \in Keys |-> 0]
    /\ lock = NoOne
    /\ gen = 0
    /\ cpc = "idle"
    /\ ckey = 0
    /\ c_running = [i \in Insts |-> FALSE]
    /\ lpc = [i \in Insts |-> IF i = TimedLoop THEN "run" ELSE "unborn"]
    /\ pending = [i \in Insts |-> <<>>]
    /\ nrec = 0
    /\ wpc = [w \in Workers |-> "unborn"]
    /\ wrec = [w \in Workers |-> NoRec]
    /\ deqLog = <<>>
    /\ storeLog = <<>>
    /\ produced = {}
    /\ stopSnap = {}
    /\ interval \in Intervals
    /\ now = 1
    /\ last_collection_time = 0
    /\ sleep_time = 0
    /\ cycles = 0
    /\ failures = 0
    /\ call = <<>>
    /\ hist = <<>>
    /\ SinkIdle
    /\ DbIdle
    /\ RaceIdle
    /\ CfgIdle
    /\ FsIdle

\* run(), lines 34-36: the clock is read before the first cycle
RunInitT(i) ==
    /\ RunInit(i)
    /\ last_collection_time' = now
    /\ UNCHANGED <<interval, now, sleep_time, cycles, failures, call, hist, loopRest>>

\* run(), line 38
LoopTopT(i) == LoopTop(i) /\ UNCHANGED <<timeVars, loopRest>>

\* run(), lines 40-48: the production call takes d time units
CollectT(i) ==
    /\ cycles < MaxCycles
    /\ \E res \in ProduceResults, d \in Durations :
         /\ CollectRes(i, res)
         /\ now' = now + d
         /\ cycles' = cycles + 1
         /\ failures' = IF res[1] = "fail" THEN failures + 1 ELSE failures
         /\ call' = <<res, data_queue, nrec>>
         /\ hist' = Append(hist, <<now, d>>)
    /\ UNCHANGED <<interval, last_collection_time, sleep_time, loopRest>>

\* run(), lines 44 and 46
PutT(i) == Put(i) /\ UNCHANGED <<timeVars, loopRest>>

\* a loop that goes straight back to the production call
SleepTimeNone(I, n, t0) == 0

\* a loop that sleeps the whole interval after every production call
SleepTimeWholeInterval(I, n, t0) == I

\* _sleep_until_next_interval, lines 76-77
SleepTime(I, n, t0) ==
    LET elapsed_time == n - t0 IN
    IF I - elapsed_time > 0 THEN I - elapsed_time ELSE 0

\* a loop on a fixed schedule: the next cycle is due one interval after the last was
LastCollectionTimeFixedRate(n, t0, I) == t0 + I

\* run(), line 52: the clock is read again when the sleep is over
LastCollectionTime(n, t0, I) == n

\* run(), lines 51-52 and _sleep_until_next_interval, lines 76-79
SleepT(i) ==
    /\ Sleep(i)
    /\ sleep_time' = SleepTime(interval, now, last_collection_time)
    /\ now' = now + sleep_time'
    /\ last_collection_time' = LastCollectionTime(now', last_collection_time, interval)
    /\ UNCHANGED <<interval, cycles, failures, call, hist, loopRest>>

\* BaseDataCollector.stop(), line 68, called from another thread
StopLoop(i) ==
    /\ lpc[i] # "unborn"
    /\ c_running' = [c_running EXCEPT ![i] = FALSE]
    /\ UNCHANGED <<ctlVars, data_queue, lpc, pending, nrec, produced, workVars, stopSnap,
                   timeVars, loopRest>>

LoopNext ==
    \/ RunInitT(TimedLoop)
    \/ LoopTopT(TimedLoop)
    \/ CollectT(TimedLoop)
    \/ PutT(TimedLoop)
    \/ SleepT(TimedLoop)
    \/ StopLoop(TimedLoop)

LoopSpec == LoopInit /\ [][LoopNext]_vars

\* ---------------------------------------------------------------- one drain worker
\* The agent was started and its collector has put MaxRecords records; the drain
\* worker takes them to the sink, whose store_data returns or raises; stop() may
\* be called.  A dict is a function from the keys it has to values; a value is a
\* pair of its kind and what it holds.
Null == <<"none", <<>>>>
Str(x) == <<"str", x>>

DrainWorker == 1
DrainFields == {"source", "data_type", "timestamp"}

\* the values a field of a queued dict may have
FieldValues(f) ==
    IF f = "data_type" THEN {Str(<<"d">>)}
    ELSE IF f = "source" THEN {Str(<<"s">>), Null}
    ELSE {Str(<<"t">>), Null}

\* the dicts that may be on the queue: any of the three keys may be missing
DrainRecords ==
    UNION {{d \in [S -> {Str(<<"d">>), Str(<<"s">>), Str(<<"t">>), Null}] :
                \A f \in S : d[f] \in FieldValues(f)} : S \in SUBSET DrainFields}

\* the dicts the collectors of the repository build: "source", "data_type" and
\* "timestamp" are keys of every dict literal; data_type is a string literal and
\* timestamp an isoformat() string; source is a string literal, or in news.py and
\* geopolitical.py the "name" of the configured source (null when the YAML says so)
CollectorRecords ==
    {d \in DrainRecords :
        /\ DOMAIN d = DrainFields
        /\ d["data_type"] # Null
        /\ d["timestamp"] # Null}

\* datetime.now(utc).isoformat() at the time _process_data runs
CaptureTime == Str(<<"now">>)

\* a worker that stamps every record with the capture time
InjectTimestampAlways(d, t) ==
    [f \in DOMAIN d \cup {"timestamp"} |-> IF f = "timestamp" THEN t ELSE d[f]]

\* _process_data, lines 178-179
InjectTimestamp(d, t) ==
    IF "timestamp" \in DOMAIN d THEN d
    ELSE [f \in DOMAIN d \cup {"timestamp"} |-> IF f = "timestamp" THEN t ELSE d[f]]

\* what the drain worker leaves alone
drainRest == <<timeVars, dbVars, cfgVars, fsVars, raceVars>>

\* the records of the queue, one production call each
QueuedRecords == [n \in 1..MaxRecords |-> <<n - 1, 1>>]

DrainInit ==
    /\ running = TRUE
    /\ data_queue = QueuedRecords
    /\ collectors = [k \in Keys |-> IF k = 1 THEN 1 ELSE 0]
    /\ lock = NoOne
    /\ gen = 1
    /\ cpc = "idle"
    /\ ckey = 0
    /\ c_running = [i \in Insts |-> i = TimedLoop]
    /\ lpc = [i \in Insts |-> IF i = TimedLoop THEN "sleep" ELSE "unborn"]
    /\ pending = [i \in Insts |-> <<>>]
    /\ nrec = MaxRecords
    /\ wpc = [w \in Workers |-> IF w = DrainWorker THEN "while" ELSE "unborn"]
    /\ wrec = [w \in Workers |-> NoRec]
    /\ deqLog = <<>>
    /\ storeLog = <<>>
    /\ produced = Range(QueuedRecords)
    /\ stopSnap = {}
    /\ \E f \in [Range(QueuedRecords) -> DrainRecords] :
          content = [r \in Records |-> IF r \in Range(QueuedRecords) THEN f[r] ELSE <<>>]
    /\ passed = <<>>
    /\ outcomes = <<>>
    /\ TimeIdle
    /\ DbIdle
    /\ RaceIdle
    /\ CfgIdle
    /\ FsIdle

WhileRunningS(w) == WhileRunning(w) /\ UNCHANGED <<sinkVars, drainRest>>
WhileEmptyS(w) == WhileEmpty(w) /\ UNCHANGED <<sinkVars, drainRest>>
GetS(w) == Get(w) /\ UNCHANGED <<sinkVars, drainRest>>
GetTimeoutS(w) == GetTimeout(w) /\ UNCHANGED <<sinkVars, drainRest>>

\* _process_data, lines 176-183: the timestamp is added if the key is missing, the
\* lock is taken and the dict is handed to store_data
ProcessDataS(w) ==
    /\ ProcessData(w)
    /\ passed' = Append(passed, <<wrec[w], InjectTimestamp(content[wrec[w]], CaptureTime)>>)
    /\ UNCHANGED <<content, outcomes, drainRest>>

\* _process_data, lines 183-188: store_data returns or raises StorageError
StoreReturnS(w) ==
    /\ \E o \in StoreOutcomes :
          /\ StoreReturnRes(w, o)
          /\ outcomes' = Append(outcomes, o)
    /\ UNCHANGED <<content, passed, drainRest>>

StopFlagS == StopFlag /\ UNCHANGED <<sinkVars, drainRest>>
StopCollectorS == StopCollector /\ UNCHANGED <<sinkVars, drainRest>>

DrainNext ==
    \/ WhileRunningS(DrainWorker)
    \/ WhileEmptyS(DrainWorker)
    \/ GetS(DrainWorker)
    \/ GetTimeoutS(DrainWorker)
    \/ ProcessDataS(DrainWorker)
    \/ StoreReturnS(DrainWorker)
    \/ StopFlagS
    \/ StopCollectorS

DrainSpec == DrainInit /\ [][DrainNext]_vars

\* ---------------------------------------------------------------- schema inference
\* PostgresDataStorage._determine_table_schema applied to one dict after another.
\* A list value holds the kinds of its elements; bool is a subclass of int.
ElemKinds == {"str", "int", "float", "bool", "dict", "none"}
ListValues == UNION {{<<"list", e>> : e \in [1..n -> ElemKinds]} : n \in 0..MaxListLen}
ScalarValues ==
    {Str(<<"v">>), <<"int", <<>>>>, <<"bool", <<>>>>, <<"float", <<>>>>, <<"dict", <<>>>>,
     <<"other", <<>>>>, Null}

IsStr(k) == k = "str"
\* an isinstance(value, int) that a bool does not pass
IsIntNotBool(k) == k = "int"
\* isinstance(value, int): bool is a subclass of int
IsInt(k) == k \in {"int", "bool"}
IsFloat(k) == k = "float"

\* the key is left out of the schema
Skip == "skip"

\* inference that knows text and documents only
DetermineTypeTextOrJson(key, v) ==
    IF key = "raw_data" THEN "JSONB"
    ELSE IF IsStr(v[1]) THEN "TEXT"
    ELSE IF v[1] = "none" THEN Skip
    ELSE "JSONB"

\* _determine_table_schema, lines 154-176: the branch taken for one key and value
DetermineType(key, v) ==
    IF key = "raw_data" THEN "JSONB"
    ELSE IF IsStr(v[1]) THEN "TEXT"
    ELSE IF IsInt(v[1]) THEN "BIGINT"
    ELSE IF IsFloat(v[1]) THEN "DOUBLE PRECISION"
    ELSE IF v[1] = "list" THEN
        IF \A n \in 1..Len(v[2]) : IsStr(v[2][n]) THEN "TEXT[]"
        ELSE IF \A n \in 1..Len(v[2]) : IsInt(v[2][n]) \/ IsFloat(v[2][n])
             THEN "DOUBLE PRECISION[]"
        ELSE "JSONB"
    ELSE IF v[1] = "dict" THEN "JSONB"
    ELSE IF v[1] = "none" THEN Skip
    ELSE "TEXT"

\* _determine_table_schema, lines 150-178
DetermineTableSchema(d) ==
    [k \in {f \in DOMAIN d : DetermineType(f, d[f]) # Skip} |-> DetermineType(k, d[k])]

\* the dicts schema inference is applied to: raw_data and one other field, each
\* missing or holding any value of the kinds above
SchemaRecords ==
    UNION {{d \in [S -> ScalarValues \cup ListValues] :
                "raw_data" \in S => d["raw_data"] \in {Null, <<"dict", <<>>>>, Str(<<"v">>)}} :
           S \in SUBSET {"raw_data", "x"}}

\* what schema inference leaves alone
schemaRest ==
    <<tables, creator, rows, conn_out, ncalls, fault, sinsert, cfgVars, fsVars, raceVars>>

SchemaInit ==
    /\ AgentInit
    /\ TimeIdle
    /\ SinkIdle
    /\ DbIdle
    /\ RaceIdle
    /\ CfgIdle
    /\ FsIdle

\* one call of _determine_table_schema
InferSchema ==
    /\ \E d \in SchemaRecords :
          /\ srec' = d
          /\ sschema' = DetermineTableSchema(d)
    /\ spc' = "inferred"
    /\ UNCHANGED <<running, data_queue, collectors, lock, gen, cpc, ckey, c_running, lpc,
                   pending, nrec, wpc, wrec, deqLog, storeLog, produced, stopSnap,
                   timeVars, sinkVars, schemaRest>>

SchemaNext == InferSchema

SchemaSpec == SchemaInit /\ [][SchemaNext]_vars

\* ---------------------------------------------------------------- relational sink
\* PostgresDataStorage.store_data called with one dict after another by one
\* caller.  A text is a sequence of pieces; a table is known by its name and has
\* columns with types; the pool or the database may fail at one point of a call.
StoreRecords ==
    UNION {{d \in [S -> {Str(<<"a">>), Str(<<"a", "_", "b">>), Str(<<"b">>), Str(<<"b", "_", "b">>),
                         Null, <<"int", <<>>>>, <<"float", <<>>>>,
                         <<"dict", <<>>>>, <<"list", <<"int">>>>}] :
                /\ "source" \in S => d["source"] \in {Str(<<"a">>), Str(<<"a", "_", "b">>)}
                /\ d["data_type"] \in {Str(<<"b">>), Str(<<"b", "_", "b">>)}
                /\ "source" \notin S => d["data_type"] = Str(<<"b">>)
                /\ ("source" \in S /\ d["source"] = Str(<<"a">>)) => d["data_type"] = Str(<<"b", "_", "b">>)
                /\ ("source" \in S /\ d["source"] = Str(<<"a", "_", "b">>)) => d["data_type"] = Str(<<"b">>)
                /\ "raw_data" \in S => d["raw_data"] = <<"dict", <<>>>>
                /\ "x" \in S => d["x"] \in {Null, <<"int", <<>>>>, <<"list", <<"int">>>>}
                /\ "lastPrice" \in S => d["lastPrice"] = <<"float", <<>>>>} :
           S \in {T \cup {"data_type"} : T \in SUBSET {"source", "raw_data", "x", "lastPrice"}}}

\* the points of a store_data call at which the pool or the database may fail:
\* getconn (line 182), the CREATE or its commit (142-143), the INSERT (193-206),
\* the commit (207), or the connection is lost at the INSERT so that the
\* rollback (212) fails as well
Faults == {"none", "getconn", "create", "insert", "commit", "lost"}

\* str() of a value inside an f-string
TextOf(v) == IF v[1] = "str" THEN v[2] ELSE <<"None">>

\* store_data, lines 185-187
TableName(d) ==
    LET source == IF "source" \in DOMAIN d THEN TextOf(d["source"]) ELSE <<"unknown">>
        data_type == IF "data_type" \in DOMAIN d THEN TextOf(d["data_type"]) ELSE <<"general">>
    IN source \o <<"_">> \o data_type

\* a database that keeps the case of a column name written without quotes
FoldCaseKept(name) == name

\* _create_table, line 136: the column names go into the statement as plain SQL
\* text (sql.SQL), not quoted, and PostgreSQL reads an unquoted name in lower case
FoldCase(name) == IF name = "lastPrice" THEN "lastprice" ELSE name

\* _create_table, lines 136-141: the columns of the table the statement describes
CreatedColumns(schema) ==
    [c \in {FoldCase(k) : k \in DOMAIN schema} |->
        schema[CHOOSE k \in DOMAIN schema : FoldCase(k) = c]]

\* a CREATE TABLE that puts the described table in the place of the one there is
CreateOrReplace(tbls, t, cols) == [n \in DOMAIN tbls \cup {t} |-> IF n = t THEN cols ELSE tbls[n]]

\* _create_table, line 137: CREATE TABLE IF NOT EXISTS makes the table when there
\* is none of that name and does nothing otherwise
CreateIfNotExists(tbls, t, cols) == IF t \in DOMAIN tbls THEN tbls ELSE tbls @@ (t :> cols)

\* json.dumps of a dict or a list
JsonDumps(v) == Str(<<"json", v>>)

\* a data_for_insert that keeps the None values
DataForInsertAll(d) ==
    [k \in DOMAIN d |-> IF d[k][1] \in {"dict", "list"} THEN JsonDumps(d[k]) ELSE d[k]]

\* store_data, line 196: data_for_insert
DataForInsert(d) ==
    [k \in {f \in DOMAIN d : d[f] # Null} |->
        IF d[k][1] \in {"dict", "list"} THEN JsonDumps(d[k]) ELSE d[k]]

\* store_data, line 206: whether a column of type T takes the bound value v.  A
\* number is sent as a number, a text (json.dumps output included) as a quoted
\* literal the column's type has to read: TEXT reads anything, JSONB reads JSON
\* text, a number column reads numbers, and an array column does not read JSON
\* text, whose brackets are no array literal
ValueAccepted(T, v) ==
    CASE T = "TEXT" -> TRUE
      [] T = "JSONB" -> v[1] = "str" /\ Len(v[2]) > 0 /\ v[2][1] = "json"
      [] T \in {"BIGINT", "DOUBLE PRECISION"} -> v[1] \in {"int", "float"}
      [] OTHER -> FALSE

\* store_data, lines 201-206: the column names are quoted (sql.Identifier) and must
\* be columns of the table as they are written, each taking its value; a
\* statement without columns is no valid SQL
InsertAccepted(t, d) ==
    /\ t \in DOMAIN tables
    /\ DOMAIN DataForInsert(d) # {}
    /\ DOMAIN DataForInsert(d) \subseteq DOMAIN tables[t]
    /\ \A k \in DOMAIN DataForInsert(d) : ValueAccepted(tables[t][k], DataForInsert(d)[k])

\* a finally block that keeps the connection
PutConnectionNever(n) == n

\* _put_connection, line 125
PutConnection(n) == n - 1

\* what the relational sink leaves alone
storeRest ==
    <<running, data_queue, collectors, lock, gen, cpc, ckey, c_running, lpc, pending, nrec,
      wpc, wrec, deqLog, storeLog, produced, stopSnap, timeVars, sinkVars, cfgVars, fsVars,
      raceVars>>

StoreInit ==
    /\ AgentInit
    /\ TimeIdle
    /\ SinkIdle
    /\ DbIdle
    /\ RaceIdle
    /\ CfgIdle
    /\ FsIdle

\* store_data, lines 182-190: a connection is taken from the pool, the table name
\* and the schema are computed; when getconn raises, its error leaves store_data
\* as it is, for line 182 is outside the try
PgBegin ==
    /\ spc \in {"idle", "returned", "raised", "raised_other"}
    /\ ncalls < MaxStores
    /\ ncalls' = ncalls + 1
    /\ \E d \in StoreRecords :
          /\ srec' = d
          /\ sschema' = DetermineTableSchema(d)
    /\ sinsert' = <<>>
    /\ \E f \in Faults :
          /\ fault' = f
          /\ IF f = "getconn"
             THEN spc' = "raised_other" /\ conn_out' = conn_out
             ELSE spc' = "create" /\ conn_out' = conn_out + 1
    /\ UNCHANGED <<tables, creator, rows, storeRest>>

\* store_data, line 191, and _create_table: CREATE TABLE IF NOT EXISTS is run and
\* committed on every call; the statement or its commit may fail
PgCreateTable ==
    /\ spc = "create"
    /\ LET t == TableName(srec) IN
         IF fault = "create"
         THEN /\ spc' = "fail"
              /\ UNCHANGED <<tables, creator>>
         ELSE /\ spc' = "insert"
              /\ tables' = CreateIfNotExists(tables, t, CreatedColumns(sschema))
              /\ creator' = IF t \in DOMAIN tables THEN creator ELSE creator @@ (t :> srec)
    /\ UNCHANGED <<rows, srec, sschema, conn_out, ncalls, fault, sinsert, storeRest>>

\* store_data, lines 193-206: the INSERT is executed; it is rejected when it names
\* a column the table lacks or binds a value the column does not take, and may
\* fail for other reasons
PgInsert ==
    /\ spc = "insert"
    /\ sinsert' = <<TableName(srec), DataForInsert(srec)>>
    /\ IF InsertAccepted(TableName(srec), srec) /\ fault \notin {"insert", "lost"}
       THEN spc' = "commit"
       ELSE spc' = "fail"
    /\ UNCHANGED <<tables, creator, rows, srec, sschema, conn_out, ncalls, fault, storeRest>>

\* store_data, lines 207-208 and 214-217: the row is committed, the connection goes
\* back to the pool and the call returns; or the commit fails
PgCommit ==
    /\ spc = "commit"
    /\ IF fault = "commit"
       THEN /\ spc' = "fail"
            /\ UNCHANGED <<rows, conn_out>>
       ELSE /\ rows' = Append(rows, sinsert)
            /\ conn_out' = PutConnection(conn_out)
            /\ spc' = "returned"
    /\ UNCHANGED <<tables, creator, srec, sschema, ncalls, fault, sinsert, storeRest>>

\* store_data, lines 210-217: rollback, then StorageError is raised, unless the
\* rollback itself raises; either way the connection goes back to the pool
PgRaise ==
    /\ spc = "fail"
    /\ conn_out' = PutConnection(conn_out)
    /\ spc' = IF fault = "lost" THEN "raised_other" ELSE "raised"
    /\ UNCHANGED <<tables, creator, rows, srec, sschema, ncalls, fault, sinsert, storeRest>>

StoreNext ==
    \/ PgBegin
    \/ PgCreateTable
    \/ PgInsert
    \/ PgCommit
    \/ PgRaise

StoreSpec == StoreInit /\ [][StoreNext]_vars

\* ---------------------------------------------------------------- start() over a configuration
\* start() called once on an agent whose configuration has categories of
\* collector entries.  A category is a dict whose items are its entries and,
\* possibly, its own "enabled" key; an item is its key, the kind of its value
\* ("bool" or "dict") and the bool, for a dict the value of its "enabled" key; a
\* class name is a sequence of pieces.
CollectorTypes == {"market", "unstructured", "macro"}

\* the modules under collectors/<type>/ and the collector class each defines
ModuleClass ==
    [market |-> [crypto |-> <<"CryptoMarketData", "Collector">>,
                 equities |-> <<"EquitiesMarketData", "Collector">>,
                 futures |-> <<"FuturesData", "Collector">>,
                 options |-> <<"OptionsData", "Collector">>],
     unstructured |-> [earnings |-> <<"EarningsCalls", "Collector">>,
                       news |-> <<"News", "Collector">>,
                       reddit |-> <<"Reddit", "Collector">>,
                       sec_filings |-> <<"SECFilings", "Collector">>,
                       twitter |-> <<"Twitter", "Collector">>],
     macro |-> [cpi |-> <<"CPI", "Collector">>,
                fed_rates |-> <<"FedRates", "Collector">>,
                geopolitical |-> <<"GeopoliticalEvents", "Collector">>]]

\* the arguments __init__ of each collector class takes after self
InitParams(type, source) ==
    CASE type = "unstructured" /\ source \in {"news", "sec_filings"} -> 4
      [] type = "unstructured" /\ source \in {"earnings", "reddit", "twitter"} -> 3
      [] type = "macro" /\ source = "geopolitical" -> 3
      [] OTHER -> 2

\* a source no module is named after
NoSuchSource == "nosuch"

\* str.capitalize
Capitalize ==
    [crypto |-> "Crypto", equities |-> "Equities", futures |-> "Futures", options |-> "Options",
     earnings |-> "Earnings", news |-> "News", reddit |-> "Reddit",
     sec_filings |-> "Sec_filings", twitter |-> "Twitter", cpi |-> "Cpi",
     fed_rates |-> "Fed_rates", geopolitical |-> "Geopolitical", nosuch |-> "Nosuch"]

\* _get_collector_class, lines 79-93
ClassName(type, source) ==
    LET class_name ==
            CASE type = "market" /\ source = "crypto" -> "CryptoMarketData"
              [] type = "market" /\ source = "equities" -> "EquitiesMarketData"
              [] type = "unstructured" /\ source = "sec_filings" -> "SECFilings"
              [] type = "unstructured" /\ source = "earnings" -> "EarningsCalls"
              [] type = "macro" /\ source = "fed_rates" -> "FedRates"
              [] type = "macro" /\ source = "geopolitical" -> "GeopoliticalEvents"
              [] OTHER -> Capitalize[source]
    IN <<class_name, "Collector">>

\* the None _get_collector_class returns
NoClass == <<>>

\* _get_collector_class: ValueError for an unknown type, ImportError for a source
\* without module, AttributeError when the module has no attribute of the
\* computed name; each is caught and None returned
GetCollectorClass(type, source) ==
    IF type \notin CollectorTypes THEN NoClass
    ELSE IF source \notin DOMAIN ModuleClass[type] THEN NoClass
    ELSE IF ClassName(type, source) # ModuleClass[type][source] THEN NoClass
    ELSE ClassName(type, source)

\* _start_collectors, lines 113-123: the arguments the constructor is called with
ArgsPassed(type, source) ==
    IF type = "unstructured"
    THEN IF source \in {"news", "sec_filings"} THEN 4
         ELSE IF source \in {"twitter", "reddit", "earnings"} THEN 3
         ELSE 2
    ELSE 2

\* _start_collectors, line 125: the key of a collector in self.collectors
CollectorKey(type, source) == <<type, "_", source>>

\* the sources the configurations name, per category
ConfigSources ==
    [market |-> {"crypto", "futures"},
     unstructured |-> {"news", NoSuchSource},
     macro |-> {"fed_rates", "geopolitical"}]

\* the entries of a category: up to MaxEntries sources, each with its enabled key
ConfigEntries(t) ==
    UNION {{e \in [1..n -> ConfigSources[t] \X {"dict"} \X BOOLEAN] :
                \A i, j \in 1..n : i # j => e[i][1] # e[j][1]} : n \in 0..MaxEntries}

\* the categories: the entries, after an "enabled" key of the category or none
ConfigCategories ==
    UNION {{[type |-> t, items |-> h \o e] :
                h \in {<<>>, << <<"enabled", "bool", TRUE>> >>, << <<"enabled", "bool", FALSE>> >>},
                e \in ConfigEntries(t)} : t \in CollectorTypes}

\* config["collectors"]: up to MaxCategories categories of different types
Configs ==
    UNION {{c \in [1..n -> ConfigCategories] :
                \A i, j \in 1..n : i # j => c[i].type # c[j].type} : n \in 0..MaxCategories}

\* start, line 143: config.get("enabled", True) of a category
CategoryEnabled(c) ==
    \A n \in 1..Len(c.items) : c.items[n][1] = "enabled" => c.items[n][3]

\* what start() leaves alone
startRest ==
    <<collectors, lock, gen, cpc, ckey, c_running, lpc, pending, nrec, wrec, deqLog, storeLog,
      produced, stopSnap, timeVars, sinkVars, dbVars, fsVars, raceVars>>

StartInit ==
    /\ AgentInit
    /\ TimeIdle
    /\ SinkIdle
    /\ DbIdle
    /\ RaceIdle
    /\ FsIdle
    /\ cfg \in Configs
    /\ spos = <<0, 0>>
    /\ sphase = "idle"
    /\ scollectors = {}
    /\ sloops = <<>>

\* start, lines 131-139: the agent is not running; the flag is set and the
\* processor thread is started
CfgStart ==
    /\ sphase = "idle"
    /\ ~running
    /\ running' = TRUE
    /\ wpc' = [wpc EXCEPT ![1] = "while"]
    /\ sphase' = "run"
    /\ spos' = <<1, 0>>
    /\ UNCHANGED <<cfg, scollectors, sloops, data_queue, startRest>>

\* start, lines 142-147: the next category; a disabled one is passed over; after
\* the last one start() returns
CfgCategory ==
    /\ sphase = "run"
    /\ spos[2] = 0
    /\ IF spos[1] > Len(cfg)
       THEN sphase' = "returned" /\ spos' = spos
       ELSE /\ sphase' = sphase
            /\ spos' = IF CategoryEnabled(cfg[spos[1]]) THEN <<spos[1], 1>> ELSE <<spos[1] + 1, 0>>
    /\ UNCHANGED <<cfg, scollectors, sloops, running, wpc, data_queue, startRest>>

\* _start_collectors, lines 103-127, one turn of its loop over the items of the
\* category: the value of the category's own "enabled" key is a bool, which has
\* no get (AttributeError); a disabled entry and one whose class is not found are
\* passed over; a constructor called with the wrong number of arguments raises
\* TypeError; nothing in _start_collectors or start() catches either error
CfgItem ==
    /\ sphase = "run"
    /\ spos[2] > 0
    /\ LET c == cfg[spos[1]]
           n == spos[2]
       IN IF n > Len(c.items)
          THEN /\ spos' = <<spos[1] + 1, 0>>
               /\ UNCHANGED <<sphase, scollectors, sloops>>
          ELSE LET source == c.items[n][1]
                   src_config == c.items[n]
               IN IF src_config[2] = "bool"
                  THEN /\ sphase' = "raised"
                       /\ UNCHANGED <<spos, scollectors, sloops>>
                  ELSE IF ~src_config[3] \/ GetCollectorClass(c.type, source) = NoClass
                  THEN /\ spos' = <<spos[1], n + 1>>
                       /\ UNCHANGED <<sphase, scollectors, sloops>>
                  ELSE IF ArgsPassed(c.type, source) # InitParams(c.type, source)
                  THEN /\ sphase' = "raised"
                       /\ UNCHANGED <<spos, scollectors, sloops>>
                  ELSE /\ scollectors' = scollectors \cup {CollectorKey(c.type, source)}
                       /\ sloops' = Append(sloops, CollectorKey(c.type, source))
                       /\ spos' = <<spos[1], n + 1>>
                       /\ UNCHANGED sphase
    /\ UNCHANGED <<cfg, running, wpc, data_queue, startRest>>

\* run() of a started collector puts a record, here its key, on the queue
CfgLoopPut ==
    /\ Len(data_queue) < MaxRecords
    /\ \E n \in 1..Len(sloops) : data_queue' = Append(data_queue, sloops[n])
    /\ UNCHANGED <<cfgVars, running, wpc, startRest>>

StartNext ==
    \/ CfgStart
    \/ CfgCategory
    \/ CfgItem
    \/ CfgLoopPut

StartSpec == StartInit /\ [][StartNext]_vars

\* ---------------------------------------------------------------- file and CSV sinks
\* DataStorage.store_data called with one dict after another by one caller.  A
\* text is a sequence of characters or longer pieces; a path is the sequence of
\* its components; a JSON text is the tree of its tokens; a CSV file is the
\* sequence of its lines.
DataDir == <<"data">>

\* the values of the field x of the dicts stored: a float, a nested dict of an
\* int and a string, or an object json cannot serialize (a pandas Timestamp, say)
Unserializable == <<"other", <<>>>>
NestedDict == <<"dict", [a |-> <<"int", <<>>>>, b |-> Str(<<"v">>)]>>

\* the dicts handed to store_data: source, asset and x may be missing, source
\* and asset may be None, an asset may hold "/" or ":"
FileRecords ==
    UNION {{d \in [S -> {Str(<<"s">>), Str(<<"t">>), Str(<<"A", "/", "B">>),
                         Str(<<"A", ":", "B">>), Null, <<"float", <<>>>>,
                         NestedDict, Unserializable}] :
                /\ "source" \in S => d["source"] \in {Str(<<"s">>), Null}
                /\ d["data_type"] = Str(<<"t">>)
                /\ "asset" \in S =>
                      d["asset"] \in {Str(<<"A", "/", "B">>), Str(<<"A", ":", "B">>), Null}
                /\ "x" \in S =>
                      d["x"] \in {<<"float", <<>>>>, NestedDict, Unserializable}} :
           S \in {T \cup {"data_type"} : T \in SUBSET {"source", "asset", "x"}}}

\* data.get(key, default)
GetOr(d, key, default) == IF key \in DOMAIN d THEN d[key] ELSE Str(default)

\* an asset written into the file name as it is
SanitizeNothing(text) == text

\* _store_to_file, line 51: .replace("/", "-").replace(":", "-")
Sanitize(text) == [i \in 1..Len(text) |-> IF text[i] \in {"/", ":"} THEN "-" ELSE text[i]]

\* _store_to_file, line 50: strftime("%Y%m%d_%H%M%S") of the current second
Strftime(second) == <<"%Y%m%d_%H%M%S", second>>

\* the file name _<asset>.json after a time stamp
FileName(second, assetText) == <<Strftime(second), "_">> \o assetText \o <<".json">>

\* _store_to_file, lines 42-55: filepath
FilePath(d, second) ==
    <<DataDir, GetOr(d, "source", <<"unknown">>)[2], GetOr(d, "data_type", <<"general">>)[2],
      FileName(second, Sanitize(GetOr(d, "asset", <<"general">>)[2]))>>

\* _store_to_csv, lines 68-77: filepath
CsvPath(d) ==
    <<DataDir, GetOr(d, "source", <<"unknown">>)[2],
      GetOr(d, "data_type", <<"general">>)[2] \o <<".csv">>>>

\* os.path.join and str.replace need str arguments: the statements before the
\* file is opened raise for a source or an asset that is None
PathRaises(d, keys) == \E k \in keys : k \in DOMAIN d /\ d[k][1] # "str"

\* json.dump of a value that is no dict: a string, a number with or without a
\* fraction part, null
JsonDumpScalar(v) ==
    CASE v[1] = "str" -> <<"string", v[2]>>
      [] v[1] = "int" -> <<"number", <<"1">>>>
      [] v[1] = "float" -> <<"number", <<"1", ".", "0">>>>
      [] OTHER -> <<"null">>

\* json.dump of a value
JsonDumpValue(v) ==
    IF v[1] = "dict"
    THEN <<"object", [k \in DOMAIN v[2] |-> JsonDumpScalar(v[2][k])]>>
    ELSE JsonDumpScalar(v)

\* _store_to_file, line 57: json.dump(data, file, indent=2, ensure_ascii=False)
JsonDump(d) == <<"object", [k \in DOMAIN d |-> JsonDumpValue(d[k])]>>

\* whether json.dump gets through: it raises TypeError at an object it has no
\* encoding for
Serializable(d) == \A k \in DOMAIN d : d[k] # Unserializable

\* json.load of a token that is no object: a number is an int unless it has a
\* fraction part
JsonLoadScalar(j) ==
    CASE j[1] = "string" -> Str(j[2])
      [] j[1] = "number" -> IF \E i \in 1..Len(j[2]) : j[2][i] = "." THEN <<"float", <<>>>>
                            ELSE <<"int", <<>>>>
      [] OTHER -> Null

\* json.load of a value
JsonLoadValue(j) ==
    IF j[1] = "object"
    THEN <<"dict", [k \in DOMAIN j[2] |-> JsonLoadScalar(j[2][k])]>>
    ELSE JsonLoadScalar(j)

\* json.load of the content of a file
JsonLoad(j) == [k \in DOMAIN j[2] |-> JsonLoadValue(j[2][k])]

\* what is in a file that json.dump left while writing it
PartialJson == <<"partial">>

\* the order of the keys of the dicts stored
FieldOrder == <<"source", "data_type", "asset", "x">>

\* pd.json_normalize(data), line 80: one row; the keys of a nested dict become
\* columns named <key>.<subkey>; the columns are in the order of the keys
Normalize(d) ==
    LET Columns(k) ==
            IF k \notin DOMAIN d THEN <<>>
            ELSE IF d[k][1] = "dict"
            THEN << <<<<k, ".", "a">>, d[k][2]["a"]>>, <<<<k, ".", "b">>, d[k][2]["b"]>> >>
            ELSE << <<<<k>>, d[k]>> >>
    IN Columns(FieldOrder[1]) \o Columns(FieldOrder[2]) \o Columns(FieldOrder[3])
           \o Columns(FieldOrder[4])

\* the header line and the data line to_csv writes for a one-row frame
HeaderLine(frame) == <<"header", [i \in 1..Len(frame) |-> frame[i][1]]>>
DataLine(frame) == <<"row", [i \in 1..Len(frame) |-> frame[i][2]]>>

\* a sink that writes the header with every row
IsNewFileAlways(path) == TRUE

\* _store_to_csv, line 83: not os.path.isfile(filepath)
IsNewFile(path) == path \notin DOMAIN files

\* an open that leaves a file that is there as it is
WriteFileKeep(fs, path, text) ==
    [q \in DOMAIN fs \cup {path} |-> IF q \in DOMAIN fs THEN fs[q] ELSE text]

\* _store_to_file, lines 56-57: open(filepath, 'w') makes the file or empties the
\* one that is there, and the text is written into it
WriteFile(fs, path, text) ==
    [q \in DOMAIN fs \cup {path} |-> IF q = path THEN text ELSE fs[q]]

\* what the file and CSV sinks leave alone
fsRest ==
    <<running, data_queue, collectors, lock, gen, cpc, ckey, c_running, lpc, pending, nrec,
      wpc, wrec, deqLog, storeLog, produced, stopSnap, timeVars, sinkVars, dbVars, cfgVars,
      raceVars>>

\* DataStorage.__init__: the storage type of the configuration
FsInit ==
    /\ AgentInit
    /\ TimeIdle
    /\ SinkIdle
    /\ DbIdle
    /\ RaceIdle
    /\ CfgIdle
    /\ storage_type \in {"file", "csv", "database"}
    /\ files = <<>>
    /\ fclock = 0
    /\ fcalls = <<>>

\* store_data and _store_to_file: the path is computed, the file is opened for
\* writing, which empties a file that is there, and the dict is dumped into it;
\* an error on the way is raised as StorageError
FsStoreFile ==
    /\ storage_type = "file"
    /\ Len(fcalls) < MaxFileStores
    /\ \E d \in FileRecords :
          IF PathRaises(d, {"source", "asset"})
          THEN /\ fcalls' = Append(fcalls, <<d, "fail", fclock>>)
               /\ UNCHANGED files
          ELSE LET filepath == FilePath(d, fclock) IN
               IF Serializable(d)
               THEN /\ files' = WriteFile(files, filepath, JsonDump(d))
                    /\ fcalls' = Append(fcalls, <<d, "ok", fclock>>)
               ELSE /\ files' = WriteFile(files, filepath, PartialJson)
                    /\ fcalls' = Append(fcalls, <<d, "fail", fclock>>)
    /\ UNCHANGED <<storage_type, fclock, fsRest>>

\* store_data and _store_to_csv: the frame of the dict goes into a new file
\* after its header, or is appended to the file that is there without one
FsStoreCsv ==
    /\ storage_type = "csv"
    /\ Len(fcalls) < MaxFileStores
    /\ \E d \in FileRecords :
          IF PathRaises(d, {"source"})
          THEN /\ fcalls' = Append(fcalls, <<d, "fail", fclock>>)
               /\ UNCHANGED files
          ELSE LET filepath == CsvPath(d)
                   df == Normalize(d)
               IN /\ files' = [q \in DOMAIN files \cup {filepath} |->
                                  IF q # filepath THEN files[q]
                                  ELSE IF IsNewFile(filepath)
                                  THEN <<HeaderLine(df), DataLine(df)>>
                                  ELSE Append(files[filepath], DataLine(df))]
                  /\ fcalls' = Append(fcalls, <<d, "ok", fclock>>)
    /\ UNCHANGED <<storage_type, fclock, fsRest>>

\* store_data, lines 36-37: any other storage type
FsStoreUnsupported ==
    /\ storage_type \notin {"file", "csv"}
    /\ Len(fcalls) < MaxFileStores
    /\ \E d \in FileRecords : fcalls' = Append(fcalls, <<d, "fail", fclock>>)
    /\ UNCHANGED <<storage_type, files, fclock, fsRest>>

\* a second passes between two calls
FsTick ==
    /\ fclock < MaxSeconds
    /\ fclock' = fclock + 1
    /\ UNCHANGED <<storage_type, files, fcalls, fsRest>>

FsNext ==
    \/ FsStoreFile
    \/ FsStoreCsv
    \/ FsStoreUnsupported
    \/ FsTick

FsSpec == FsInit /\ [][FsNext]_vars

\* ---------------------------------------------------------------- concurrent start()
\* start() called from two threads at the same time on an agent that is stopped.
\* start() takes no lock: the read of self.running (line 131) and the write (line
\* 135) are two statements, and another thread can run between them.  The worker
\* and the loops a caller starts carry the caller's number.
raceRest == <<cpc, ckey, stopSnap, timeVars, sinkVars, dbVars, cfgVars, fsVars>>

\* both calls have been made and neither has read the flag
RaceInit ==
    /\ AgentInit
    /\ TimeIdle
    /\ SinkIdle
    /\ DbIdle
    /\ CfgIdle
    /\ FsIdle
    /\ tpc = [c \in Callers |-> "check"]
    /\ tkey = [c \in Callers |-> 0]

\* start(), line 131: the flag is read
RaceCheck(c) ==
    /\ tpc[c] = "check"
    /\ tpc' = [tpc EXCEPT ![c] = IF running THEN "warn" ELSE "set"]
    /\ UNCHANGED <<running, collectors, gen, tkey, data_queue, loopVars, workVars, raceRest>>

\* start(), lines 132-133: the warning is logged and the call returns
RaceWarn(c) ==
    /\ tpc[c] = "warn"
    /\ tpc' = [tpc EXCEPT ![c] = "returned"]
    /\ UNCHANGED <<running, collectors, gen, tkey, data_queue, loopVars, workVars, raceRest>>

\* start(), line 135: the flag is written
RaceSet(c) ==
    /\ tpc[c] = "set"
    /\ running' = TRUE
    /\ gen' = gen + 1
    /\ tpc' = [tpc EXCEPT ![c] = "proc"]
    /\ UNCHANGED <<collectors, tkey, data_queue, loopVars, workVars, raceRest>>

\* start(), lines 138-139: the processor thread is started
RaceProcessor(c) ==
    /\ tpc[c] = "proc"
    /\ wpc' = [wpc EXCEPT ![c] = "while"]
    /\ tkey' = [tkey EXCEPT ![c] = NextEnabled(0)]
    /\ tpc' = [tpc EXCEPT ![c] = IF NextEnabled(0) = 0 THEN "returned" ELSE "coll"]
    /\ UNCHANGED <<running, collectors, gen, data_queue, loopVars, wrec, lock, deqLog,
                   storeLog, raceRest>>

\* start() and _start_collectors, lines 142-147 and 103-127, one enabled entry per
\* step: a new collector object takes the entry's place in the dict and gets its
\* own thread
RaceCollector(c) ==
    /\ tpc[c] = "coll"
    /\ collectors' = [collectors EXCEPT ![tkey[c]] = c]
    /\ c_running' = [c_running EXCEPT ![<<c, tkey[c]>>] = FALSE]
    /\ lpc' = [lpc EXCEPT ![<<c, tkey[c]>>] = "run"]
    /\ tkey' = [tkey EXCEPT ![c] = NextEnabled(tkey[c])]
    /\ tpc' = [tpc EXCEPT ![c] = IF NextEnabled(tkey[c]) = 0 THEN "returned" ELSE "coll"]
    /\ UNCHANGED <<running, gen, data_queue, pending, nrec, produced, workVars, raceRest>>

\* the threads that were started run as they do after any start(); stop() is not called
RaceNext ==
    \/ \E c \in Callers : RaceCheck(c)
    \/ \E c \in Callers : RaceWarn(c)
    \/ \E c \in Callers : RaceSet(c)
    \/ \E c \in Callers : RaceProcessor(c)
    \/ \E c \in Callers : RaceCollector(c)
    \/ \E i \in Insts : RunInit(i) /\ UNCHANGED extVars
    \/ \E i \in Insts : LoopTop(i) /\ UNCHANGED extVars
    \/ \E i \in Insts : Collect(i) /\ UNCHANGED extVars
    \/ \E i \in Insts : Put(i) /\ UNCHANGED extVars
    \/ \E i \in Insts : Sleep(i) /\ UNCHANGED extVars
    \/ \E w \in Workers : WhileRunning(w) /\ UNCHANGED extVars
    \/ \E w \in Workers : Get(w) /\ UNCHANGED extVars
    \/ \E w \in Workers : GetTimeout(w) /\ UNCHANGED extVars
    \/ \E w \in Workers : ProcessData(w) /\ UNCHANGED extVars
    \/ \E w \in Workers : StoreReturn(w) /\ UNCHANGED extVars

RaceSpec == RaceInit /\ [][RaceNext]_vars

\* ---------------------------------------------------------------- properties
Alive(w) == wpc[w] \notin {"unborn", "done"}
LoopAlive(i) == lpc[i] \notin {"unborn", "done"}
PendingRecords == UNION {Range(pending[i]) : i \in Insts}
\* stop() has been called and has returned since the g-th start()
StopReturned(g) == gen > g \/ (gen = g /\ ~running /\ cpc = "idle")

\* C1: the records are passed to store_data in the order they left the queue: at
\* every moment the sequence of store calls begun is a prefix of the sequence of
\* dequeues
C1_StoreOrderIsDequeueOrder ==
    /\ Len(storeLog) <= Len(deqLog)
    /\ \A n \in 1..Len(storeLog) : storeLog[n] = deqLog[n]

\* C2: of two records returned by the same production call, the one emitted later
\* is never passed to store_data unless the one emitted earlier was passed before it
C2_CycleOrderStored ==
    \A n \in 1..Len(storeLog) :
        \A j \in 1..(storeLog[n][2] - 1) :
            \E m \in 1..(n - 1) : storeLog[m] = <<storeLog[n][1], j>>

\* C3: at most one store_data call is in progress, and the worker making it holds
\* the agent's lock
C3_OneStoreAtATime ==
    /\ Cardinality({w \in Workers : wpc[w] = "store"}) <= 1
    /\ \A w \in Workers : wpc[w] = "store" => lock = w

\* C3 witness: after a restart two workers hold a record each; one is inside
\* store_data and the other waits for the lock
C3_Witness ==
    \E w1, w2 \in Workers :
        /\ w1 # w2
        /\ wpc[w1] = "store"
        /\ wpc[w2] = "process"

\* C4: every record a production call returned is still to be put by its loop
\* (which is in its put statements), is in the queue, or was taken out of the
\* queue by a drain worker's get; it is in one of these places only
C4_NoRecordDropped ==
    /\ produced = PendingRecords \cup Range(data_queue) \cup Range(deqLog)
    /\ Cardinality(produced) = nrec
    /\ Len(data_queue) + Len(deqLog) + Cardinality(PendingRecords) = nrec
    /\ \A i \in Insts : lpc[i] # "put" => pending[i] = <<>>

\* C4 witness: every record the bounds allow was returned and put; one has been
\* dequeued and another is still in the queue
C4_Witness ==
    /\ nrec = MaxRecords
    /\ PendingRecords = {}
    /\ Len(data_queue) >= 1
    /\ Len(deqLog) >= 1

\* C5: when a drain worker exits, every record that was in the queue when stop()
\* was last called has been passed to store_data
C5_StopDrainsQueue ==
    [][\A w \in Workers :
          (wpc[w] # "done" /\ wpc'[w] = "done") => stopSnap \subseteq Range(storeLog)]_vars

\* C6: a start() call that finds the agent running returns after the warning: it
\* starts no worker and no loop and leaves the running flag, the collectors and the
\* queue as they are
C6_StartIdempotent ==
    [][/\ (cpc = "start_check" /\ running /\ cpc' # cpc) =>
            /\ cpc' = "start_warn"
            /\ UNCHANGED <<running, collectors, data_queue, gen, wpc, lpc, c_running>>
       /\ (cpc = "start_warn" /\ cpc' # cpc) =>
            /\ cpc' = "idle"
            /\ UNCHANGED <<running, collectors, data_queue, gen, wpc, lpc, c_running>>]_vars

\* C6 witness: start() was called on a running agent, whose worker and loop are
\* alive, and took the warning branch
C6_Witness ==
    /\ cpc = "start_warn"
    /\ running
    /\ \E w \in Workers : Alive(w)
    /\ \E i \in Insts : LoopAlive(i)

\* C7: while a loop of a later start() is collecting, every loop an earlier start()
\* made for the same entry has its running flag false and has exited
C7_NoDuplicateLoops ==
    \A k \in Keys : \A g1, g2 \in Gens :
        (g1 < g2 /\ lpc[<<g2, k>>] \in {"collect", "put"}) =>
            (lpc[<<g1, k>>] = "done" /\ ~c_running[<<g1, k>>])

\* C8: at most one drain worker is alive
C8_OneDrainWorker == Cardinality({w \in Workers : Alive(w)}) <= 1

\* C9: once stop() has been called and has returned, every loop of the start()
\* before it eventually exits
C9_LoopsExitAfterStop ==
    \A i \in Insts : (lpc[i] # "unborn" /\ StopReturned(i[1])) ~> (lpc[i] = "done")

\* C10 as stated: a loop enters its interval sleep only with its running flag true
C10_NoSleepWhenStopped ==
    [][\A i \in Insts : (lpc[i] # "sleep" /\ lpc'[i] = "sleep") => c_running[i]]_vars

\* C10 amended: the running flag is read at the top of each cycle only: after the
\* production step and its puts the loop goes into the interval sleep whatever the
\* flag is, and it exits only at the top of a cycle, with the flag false
C10_FlagCheckedAtTopOnly ==
    [][\A i \in Insts :
          /\ (lpc[i] \in {"collect", "put"} /\ lpc'[i] # lpc[i]) => lpc'[i] \in {"put", "sleep"}
          /\ (lpc[i] = "top" /\ lpc'[i] # lpc[i]) =>
                lpc'[i] = IF c_running[i] THEN "collect" ELSE "done"
          /\ (lpc[i] # "done" /\ lpc'[i] = "done") => (lpc[i] = "top" /\ ~c_running[i])]_vars

\* C10 witness: a loop is in its interval sleep with its running flag false
C10_Witness == \E i \in Insts : lpc[i] = "sleep" /\ ~c_running[i]

\* C11: a production call that raises ends nothing: the step that counts the failure
\* counts the cycle, puts nothing and takes the loop to its interval sleep, from
\* which it goes to the top of the next cycle; while every cycle so far has failed
\* the queue is empty, and the loop of a collector that was not stopped is alive
C11_FailureNeverEndsLoop ==
    /\ [](failures = cycles => (data_queue = <<>> /\ pending[TimedLoop] = <<>>))
    /\ []((c_running[TimedLoop] /\ lpc[TimedLoop] # "run") => LoopAlive(TimedLoop))
    /\ [][/\ (failures' = failures + 1) =>
                (/\ cycles' = cycles + 1
                 /\ data_queue' = data_queue
                 /\ lpc'[TimedLoop] = "sleep")
          /\ (lpc[TimedLoop] = "sleep" /\ lpc'[TimedLoop] # "sleep") => lpc'[TimedLoop] = "top"
          /\ (lpc[TimedLoop] = "top" /\ c_running[TimedLoop] /\ lpc'[TimedLoop] # "top") =>
                lpc'[TimedLoop] = "collect"]_vars

\* C11 witness: every one of the cycles the bound allows has failed and the loop is
\* at the production call of the next cycle
C11_Witness ==
    /\ cycles = MaxCycles
    /\ failures = MaxCycles
    /\ lpc[TimedLoop] = "collect"
    /\ c_running[TimedLoop]

\* C15: the puts of one cycle: one dict that is not empty is put once; a list of n
\* dicts is put element by element, n puts in list order; None, the empty dict, the
\* empty list and a call that raised put nothing.  While the loop is in its puts
\* the queue followed by what is still to put is the queue as it was at the call
\* followed by these records; when it has reached the sleep nothing is left to put
C15_FanOutPerCycle ==
    lpc[TimedLoop] \in {"put", "sleep"} =>
        LET res == call[1]
            b == call[3]
            expected ==
                IF res = <<"record", 1>> THEN << <<b, 1>> >>
                ELSE IF res[1] = "list" THEN [j \in 1..res[2] |-> <<b, j>>]
                ELSE <<>>
        IN /\ data_queue \o pending[TimedLoop] = call[2] \o expected
           /\ lpc[TimedLoop] = "sleep" => pending[TimedLoop] = <<>>
           /\ lpc[TimedLoop] = "put" => pending[TimedLoop] # <<>>

\* C15 witness: a cycle whose result was a list of two records has made its puts
C15_Witness ==
    /\ lpc[TimedLoop] = "sleep"
    /\ call[1] = <<"list", 2>>
    /\ Len(data_queue) = Len(call[2]) + 2

\* C16: a production call that took less than the interval is followed by a sleep
\* of the interval less the time it took, counted from the clock reading made just
\* before the call, and the next production call starts exactly one interval
\* after it did
C16_PeriodIsInterval ==
    /\ \A n \in 1..(Len(hist) - 1) :
          hist[n][2] < interval => hist[n + 1][1] - hist[n][1] = interval
    /\ (hist # <<>> /\ lpc[TimedLoop] \in {"put", "sleep"}) =>
          last_collection_time = hist[Len(hist)][1]
    /\ (hist # <<>> /\ lpc[TimedLoop] \in {"top", "collect", "done"}
            /\ hist[Len(hist)][2] < interval) =>
          /\ sleep_time = interval - hist[Len(hist)][2]
          /\ now = hist[Len(hist)][1] + interval
          /\ last_collection_time = now

\* C16 witness: two production calls have started, the first shorter than the
\* interval but not instantaneous
C16_Witness ==
    /\ Len(hist) >= 2
    /\ hist[1][2] > 0
    /\ hist[1][2] < interval

\* C17: a production call that took the interval or longer is followed by a sleep
\* of 0 (the computed sleep is never negative) and the next call starts the moment
\* it returned; the cycle after it lasts one interval again when its own call is
\* shorter than the interval
C17_OverrunNotCarriedOver ==
    /\ sleep_time >= 0
    /\ \A n \in 1..(Len(hist) - 1) :
          hist[n][2] >= interval => hist[n + 1][1] = hist[n][1] + hist[n][2]
    /\ (hist # <<>> /\ lpc[TimedLoop] \in {"top", "collect", "done"}
            /\ hist[Len(hist)][2] >= interval) =>
          /\ sleep_time = 0
          /\ now = hist[Len(hist)][1] + hist[Len(hist)][2]
    /\ \A n \in 1..(Len(hist) - 2) :
          (hist[n][2] >= interval /\ hist[n + 1][2] < interval) =>
              hist[n + 2][1] - hist[n + 1][1] = interval

\* C17 witness: a call that overran the interval, then a shorter one, then the
\* start of a third
C17_Witness ==
    /\ Len(hist) = 3
    /\ hist[1][2] > interval
    /\ hist[2][2] < interval

\* C12: a store_data call that raises costs its record only: the step in which it
\* ends releases the lock, leaves the worker in its loop, puts nothing back on the
\* queue and leaves the worker without a record; no record is handed to store_data
\* twice; and whenever the worker is between two records every record that left
\* the queue, those after a failure included, has been handed to store_data
C12_StoreFailureContained ==
    /\ [](\A m, n \in 1..Len(passed) : m # n => passed[m][1] # passed[n][1])
    /\ [](wpc[DrainWorker] \notin {"process", "store"} =>
            deqLog = [n \in 1..Len(passed) |-> passed[n][1]])
    /\ [][(Len(outcomes') = Len(outcomes) + 1 /\ outcomes'[Len(outcomes')] = "fail") =>
            (/\ lock' = NoOne
             /\ wpc'[DrainWorker] = "while"
             /\ wrec'[DrainWorker] = NoRec
             /\ data_queue' = data_queue
             /\ passed' = passed)]_vars

\* C12 witness: the first store_data call raised and the record dequeued after it
\* was stored
C12_Witness ==
    /\ Len(outcomes) >= 2
    /\ outcomes[1] = "fail"
    /\ outcomes[2] = "ok"

\* C13: the dict handed to store_data has the key "timestamp"; a dict that had the
\* key is handed over as it was queued; a dict that did not have it gets the
\* capture time and keeps every other key with its value
C13_TimestampInjected ==
    \A n \in 1..Len(passed) :
        LET d0 == content[passed[n][1]]
            d == passed[n][2]
        IN /\ "timestamp" \in DOMAIN d
           /\ "timestamp" \in DOMAIN d0 => d = d0
           /\ "timestamp" \notin DOMAIN d0 =>
                /\ d["timestamp"] = CaptureTime
                /\ DOMAIN d = DOMAIN d0 \cup {"timestamp"}
                /\ \A f \in DOMAIN d0 : d[f] = d0[f]

\* C13 witness: a dict queued without a timestamp and one queued with its own
\* have both been handed to store_data
C13_Witness ==
    /\ Len(passed) >= 2
    /\ "timestamp" \notin DOMAIN content[passed[1][1]]
    /\ "source" \in DOMAIN content[passed[1][1]]
    /\ "timestamp" \in DOMAIN content[passed[2][1]]

\* C14: a dict built by one of the collectors reaches store_data with the keys
\* "source" and "data_type", neither of them null
C14_SourceAndTypePopulated ==
    \A n \in 1..Len(passed) :
        content[passed[n][1]] \in CollectorRecords =>
            /\ "source" \in DOMAIN passed[n][2]
            /\ passed[n][2]["source"] # Null
            /\ "data_type" \in DOMAIN passed[n][2]
            /\ passed[n][2]["data_type"] # Null

\* C18: every field that is not null is a column of the inferred schema, with one
\* type: JSONB for the field raw_data; otherwise TEXT for a string, BIGINT for an
\* integer, DOUBLE PRECISION for a float, TEXT[] for a list of strings, DOUBLE
\* PRECISION[] for a list of integers and floats, JSONB for a list of any other
\* shape and for a dict (lists that are empty or hold booleans are C39)
C18_SchemaByValueKind ==
    spc = "inferred" =>
        \A f \in DOMAIN srec :
            LET v == srec[f]
                n == Len(v[2])
                allStr == \A j \in 1..n : v[2][j] = "str"
                allNum == \A j \in 1..n : v[2][j] \in {"int", "float"}
                noBool == \A j \in 1..n : v[2][j] # "bool"
            IN v # Null =>
                /\ f \in DOMAIN sschema
                /\ sschema[f] \in {"TEXT", "BIGINT", "DOUBLE PRECISION", "TEXT[]",
                                   "DOUBLE PRECISION[]", "JSONB"}
                /\ f = "raw_data" => sschema[f] = "JSONB"
                /\ (f # "raw_data" /\ v[1] = "str") => sschema[f] = "TEXT"
                /\ (f # "raw_data" /\ v[1] = "int") => sschema[f] = "BIGINT"
                /\ (f # "raw_data" /\ v[1] = "float") => sschema[f] = "DOUBLE PRECISION"
                /\ (f # "raw_data" /\ v[1] = "dict") => sschema[f] = "JSONB"
                /\ (f # "raw_data" /\ v[1] = "list" /\ n > 0 /\ allStr) =>
                        sschema[f] = "TEXT[]"
                /\ (f # "raw_data" /\ v[1] = "list" /\ n > 0 /\ allNum) =>
                        sschema[f] = "DOUBLE PRECISION[]"
                /\ (f # "raw_data" /\ v[1] = "list" /\ n > 0 /\ noBool
                        /\ ~allStr /\ ~allNum) =>
                        sschema[f] = "JSONB"

\* C18 witness: a schema was inferred for a dict whose raw_data is a string and
\* whose other field is a list of a string and an integer
C18_Witness ==
    /\ spc = "inferred"
    /\ DOMAIN srec = {"raw_data", "x"}
    /\ srec["raw_data"] = Str(<<"v">>)
    /\ srec["x"] = <<"list", <<"str", "int">>>>
    /\ sschema["x"] = "JSONB"

\* C19: a field whose value is null is not a column of the inferred schema,
\* whatever its name
C19_NullFieldOmitted ==
    spc = "inferred" =>
        \A f \in DOMAIN srec : srec[f] = Null => f \notin DOMAIN sschema

\* C20: a table keeps the columns and types of the schema inferred from the record
\* of the call that created it: no step changes a table that exists; a call whose
\* record has a non-null field that is not in that schema ends with StorageError;
\* and a call that ends with StorageError has added no row
C20_SchemaFixedByFirstStore ==
    /\ [](\A t \in DOMAIN tables : tables[t] = DetermineTableSchema(creator[t]))
    /\ []((spc = "returned") =>
            DOMAIN DataForInsert(srec) \subseteq
                DOMAIN DetermineTableSchema(creator[TableName(srec)]))
    /\ [][/\ \A t \in DOMAIN tables : t \in DOMAIN tables' /\ tables'[t] = tables[t]
          /\ (spc' \in {"fail", "raised"}) => rows' = rows]_vars

\* C21: the create-table statement is issued only for a table that does not
\* exist yet, so that no table name has the statement issued for it twice: no
\* store call runs its CREATE for a table an earlier call has made
C21_CreateIssuedOncePerTable ==
    [][(spc = "create" /\ spc' # "create") => TableName(srec) \notin DOMAIN tables]_vars

\* C22: CREATE TABLE IF NOT EXISTS for a table that is there: unless the database
\* fails at that point the statement goes through, and no table and no row is
\* changed by it
C22_CreateIdempotent ==
    [][(spc = "create" /\ fault # "create" /\ TableName(srec) \in DOMAIN tables) =>
            /\ spc' = "insert"
            /\ tables' = tables
            /\ DOMAIN tables' = DOMAIN tables
            /\ rows' = rows]_vars

\* C22 witness: a second call has run its CREATE, with the schema the table has,
\* for a table that holds a row
C22_Witness ==
    /\ spc = "insert"
    /\ ncalls >= 2
    /\ TableName(srec) \in DOMAIN tables
    /\ tables[TableName(srec)] = CreatedColumns(sschema)
    /\ \E n \in 1..Len(rows) : rows[n][1] = TableName(srec)

\* C23: a store call holds one connection while it runs and none once it has
\* returned or raised, whatever its exit path was
C23_ConnectionReturned ==
    conn_out = IF spc \in {"create", "insert", "commit", "fail"} THEN 1 ELSE 0

\* C23 witness: the last of the calls has raised after its commit failed, calls
\* before it have committed rows, and no connection is out
C23_Witness ==
    /\ ncalls = MaxStores
    /\ spc = "raised"
    /\ fault = "commit"
    /\ rows # <<>>
    /\ conn_out = 0

\* C24: a store call that fails at any point ends with StorageError and leaves no
\* row of its record behind
C24_FailureIsStorageError ==
    [][(spc' # spc /\ spc' \in {"raised", "raised_other"}) =>
            /\ spc' = "raised"
            /\ rows' = rows]_vars

\* C30: the INSERT a store call executes names the fields of the record that are
\* not null and no others; a list or a dict is bound as its JSON text, any other
\* value as it is
C30_InsertListsNonNullFields ==
    sinsert # <<>> =>
        /\ sinsert[1] = TableName(srec)
        /\ DOMAIN sinsert[2] = {k \in DOMAIN srec : srec[k] # Null}
        /\ \A k \in DOMAIN sinsert[2] :
              sinsert[2][k] = IF srec[k][1] \in {"dict", "list"}
                              THEN <<"str", <<"json", srec[k]>>>>
                              ELSE srec[k]

\* C30 witness: the INSERT of a record with a null field, a dict and a float
C30_Witness ==
    /\ sinsert # <<>>
    /\ "x" \in DOMAIN srec
    /\ srec["x"] = Null
    /\ "raw_data" \in DOMAIN srec
    /\ srec["raw_data"][1] = "dict"
    /\ "lastPrice" \in DOMAIN sinsert[2]

\* C29: a drain worker that is alive when the running flag is false eventually
\* exits unless the agent is started again; and a worker never exits while the
\* running flag is true: at the step that ends it the flag is false and the queue
\* is empty
C29_DrainWorkerExit ==
    /\ \A w \in Workers : (Alive(w) /\ ~running) ~> (wpc[w] = "done" \/ running)
    /\ [][\A w \in Workers :
            (wpc[w] # "done" /\ wpc'[w] = "done") => (~running /\ data_queue = <<>>)]_vars

\* the collector entries of the configuration: category and item
EntryItems ==
    UNION {{<<i, n>> : n \in {m \in 1..Len(cfg[i].items) : cfg[i].items[m][2] = "dict"}} :
           i \in 1..Len(cfg)}
EntryKey(p) == CollectorKey(cfg[p[1]].type, cfg[p[1]].items[p[2]][1])
\* an enabled entry of an enabled category
EntryEnabled(p) == CategoryEnabled(cfg[p[1]]) /\ cfg[p[1]].items[p[2]][3]
\* the threads started for a key
LoopsOf(k) == Cardinality({m \in 1..Len(sloops) : sloops[m] = k})

\* C27: when start() has returned, each enabled entry of an enabled category has
\* exactly one Collection Loop and every other entry has none; and every record on
\* the queue was put by the loop of an enabled entry
C27_OneLoopPerEnabledEntry ==
    /\ sphase = "returned" =>
          \A p \in EntryItems : LoopsOf(EntryKey(p)) = IF EntryEnabled(p) THEN 1 ELSE 0
    /\ \A m \in 1..Len(data_queue) :
          \E p \in EntryItems : EntryEnabled(p) /\ EntryKey(p) = data_queue[m]

\* C28: no collector entry makes start() end in an error, and once start() has
\* returned every enabled entry whose class is found and whose constructor takes
\* the arguments it is given has its Collection Loop, whatever happened with the
\* other entries
C28_CollectorFailureContained ==
    /\ sphase = "raised" => cfg[spos[1]].items[spos[2]][2] # "dict"
    /\ sphase = "returned" =>
          \A p \in EntryItems :
              (/\ EntryEnabled(p)
               /\ GetCollectorClass(cfg[p[1]].type, cfg[p[1]].items[p[2]][1]) # NoClass
               /\ ArgsPassed(cfg[p[1]].type, cfg[p[1]].items[p[2]][1]) =
                      InitParams(cfg[p[1]].type, cfg[p[1]].items[p[2]][1]))
              => LoopsOf(EntryKey(p)) = 1

\* the last store_data call on the file sink: its dict, outcome and second
LastCall == fcalls[Len(fcalls)]

StoredAt(P) ==
    LET Hit(c) == c[2] = "ok" /\ CsvPath(c[1]) = P
        hits == SelectSeq(fcalls, Hit)
    IN [i \in 1..Len(hits) |-> hits[i][1]]

\* C26: a CSV file holds one header line, that of the dict of the call that
\* created the file, and after it one data line for each successful store call on
\* its (source, data_type), in call order, each with the values of its own dict's
\* columns whatever the header names
C26_CsvHeaderOnceRowsInOrder ==
    storage_type = "csv" =>
        /\ \A c \in Range(fcalls) : c[2] = "ok" => CsvPath(c[1]) \in DOMAIN files
        /\ \A P \in DOMAIN files :
              LET stored == StoredAt(P) IN
              /\ Len(stored) >= 1
              /\ Len(files[P]) = 1 + Len(stored)
              /\ files[P][1] = HeaderLine(Normalize(stored[1]))
              /\ \A i \in 1..Len(stored) :
                    /\ files[P][i + 1] = DataLine(Normalize(stored[i]))
                    /\ files[P][i + 1][1] = "row"
                    /\ Len(files[P][i + 1][2]) =
                          Cardinality(DOMAIN stored[i] \ {"x"}) +
                          (IF "x" \notin DOMAIN stored[i] THEN 0
                           ELSE IF stored[i]["x"][1] = "dict" THEN 2 ELSE 1)

\* C26 witness: a file with two data lines, the second with more values than the
\* header has columns
C26_Witness ==
    /\ storage_type = "csv"
    /\ \E P \in DOMAIN files :
          /\ Len(files[P]) = 3
          /\ files[P][2] # files[P][3]
          /\ Len(files[P][3][2]) > Len(files[P][1][2])

\* the (source, data_type) pair of a row, as the record had it
PairOf(row) ==
    <<IF "source" \in DOMAIN row[2] THEN row[2]["source"] ELSE Null, row[2]["data_type"]>>

\* C34: two rows of one table come from records of the same (source, data_type)
\* pair: records of different pairs are never stored in the same table
C34_OneTablePerPair ==
    \A m, n \in 1..Len(rows) : rows[m][1] = rows[n][1] => PairOf(rows[m]) = PairOf(rows[n])

\* the store_data call going on or just ended is the first for its table: every
\* call so far has made a table of its own
FirstCallForTable == Cardinality(DOMAIN tables) = ncalls

\* C31: when the first store call for a table has failed at its INSERT, the table
\* exists, with the schema inferred from the record of that call, and has no row
C31_TableSurvivesFailedInsert ==
    (FirstCallForTable /\ sinsert # <<>> /\ spc \in {"raised", "raised_other"}) =>
        /\ TableName(srec) \in DOMAIN tables
        /\ tables[TableName(srec)] = DetermineTableSchema(srec)
        /\ \A n \in 1..Len(rows) : rows[n][1] # TableName(srec)

\* C38: the columns an INSERT names are columns of the schema inferred from its
\* record, and the INSERT of the call that made the table names no column the
\* table lacks
C38_InsertColumnsInOwnSchema ==
    sinsert # <<>> =>
        /\ DOMAIN sinsert[2] \subseteq DOMAIN DetermineTableSchema(srec)
        /\ FirstCallForTable => DOMAIN sinsert[2] \subseteq DOMAIN tables[TableName(srec)]

\* C39: a boolean field is inferred as BIGINT, a list of booleans as DOUBLE
\* PRECISION[] and an empty list as TEXT[]; each such field is in the schema
C39_BoolAndEmptyListKinds ==
    spc = "inferred" =>
        \A f \in DOMAIN srec :
            LET v == srec[f] IN
            /\ v[1] = "bool" => (f \in DOMAIN sschema /\ sschema[f] = "BIGINT")
            /\ (v[1] = "list" /\ Len(v[2]) > 0 /\ \A j \in 1..Len(v[2]) : v[2][j] = "bool") =>
                  (f \in DOMAIN sschema /\ sschema[f] = "DOUBLE PRECISION[]")
            /\ (v[1] = "list" /\ Len(v[2]) = 0) =>
                  (f \in DOMAIN sschema /\ sschema[f] = "TEXT[]")

\* C39 witness: a schema was inferred for a dict with a list of two booleans
C39_Witness ==
    /\ spc = "inferred"
    /\ "x" \in DOMAIN srec
    /\ srec["x"] = <<"list", <<"bool", "bool">>>>
    /\ sschema["x"] = "DOUBLE PRECISION[]"

\* the field of a dict, or that it is missing
FieldOf(d, key) == IF key \in DOMAIN d THEN d[key] ELSE <<"missing">>

\* a dict the file sink can store: its source and asset are strings or missing
\* and json has an encoding for its values
Storable(d) == ~PathRaises(d, {"source", "asset"}) /\ Serializable(d)

\* C32: of two storable records with the same source, data_type and asset stored
\* by the file sink within the same second, both calls succeed, there is one
\* file for the two, and unless a later call writes it again its content is the
\* record stored last
C32_SameSecondOverwrites ==
    storage_type = "file" =>
        \A i, j \in 1..Len(fcalls) :
            (/\ i < j
             /\ fcalls[i][3] = fcalls[j][3]
             /\ Storable(fcalls[i][1])
             /\ Storable(fcalls[j][1])
             /\ \A k \in {"source", "data_type", "asset"} :
                   FieldOf(fcalls[i][1], k) = FieldOf(fcalls[j][1], k))
            => /\ fcalls[i][2] = "ok"
               /\ fcalls[j][2] = "ok"
               /\ FilePath(fcalls[i][1], fcalls[i][3]) = FilePath(fcalls[j][1], fcalls[j][3])
               /\ FilePath(fcalls[j][1], fcalls[j][3]) \in DOMAIN files
               /\ j = Len(fcalls) => JsonLoad(files[FilePath(fcalls[j][1], fcalls[j][3])]) = fcalls[j][1]

\* C32 witness: two records that differ in x only were stored in the same second
\* and one file is there
C32_Witness ==
    /\ storage_type = "file"
    /\ Len(fcalls) = 2
    /\ fcalls[1][3] = fcalls[2][3]
    /\ fcalls[1][2] = "ok"
    /\ fcalls[2][2] = "ok"
    /\ fcalls[1][1] # fcalls[2][1]
    /\ \A k \in {"source", "data_type", "asset"} : FieldOf(fcalls[1][1], k) = FieldOf(fcalls[2][1], k)
    /\ Cardinality(DOMAIN files) = 1

\* C37: a production call that raises is followed by the interval sleep like any
\* other: the step that counts the failure takes the loop to the sleep with the
\* clock reading of the cycle's start untouched, the sleep that follows is the
\* interval less the time the failed call took, and while every call so far has
\* failed at once consecutive calls start exactly one interval apart, never at the
\* same instant
C37_FailedCycleStillSleeps ==
    /\ [][(failures' = failures + 1) =>
             (/\ lpc'[TimedLoop] = "sleep"
              /\ last_collection_time' = now
              /\ last_collection_time' = last_collection_time)]_vars
    /\ []((hist # <<>> /\ call[1][1] = "fail"
             /\ lpc[TimedLoop] \in {"top", "collect", "done"}) =>
            LET t0 == hist[Len(hist)][1]
                d == hist[Len(hist)][2] IN
            /\ sleep_time = (IF d < interval THEN interval - d ELSE 0)
            /\ now = t0 + (IF d < interval THEN interval ELSE d))
    /\ []((failures = cycles /\ \A n \in 1..Len(hist) : hist[n][2] = 0) =>
            \A n \in 1..(Len(hist) - 1) :
                /\ hist[n + 1][1] = hist[n][1] + interval
                /\ hist[n + 1][1] > hist[n][1])

\* C37 witness: every cycle the bound allows has failed at once and the loop has
\* slept after the last of them
C37_Witness ==
    /\ cycles = MaxCycles
    /\ failures = MaxCycles
    /\ \A n \in 1..Len(hist) : hist[n][2] = 0
    /\ call[1][1] = "fail"
    /\ lpc[TimedLoop] = "top"
    /\ sleep_time = interval

\* C35: no record is handed over twice: no record left the queue twice, no record
\* was passed to store_data twice, a record that left the queue is not in it any
\* more, two workers never hold the same record, and every record passed to
\* store_data left the queue before; this with any number of workers alive
C35_AtMostOnce ==
    /\ \A m, n \in 1..Len(deqLog) : m # n => deqLog[m] # deqLog[n]
    /\ \A m, n \in 1..Len(storeLog) : m # n => storeLog[m] # storeLog[n]
    /\ \A m, n \in 1..Len(data_queue) : m # n => data_queue[m] # data_queue[n]
    /\ Range(deqLog) \cap Range(data_queue) = {}
    /\ \A v, w \in Workers : (v # w /\ wrec[v] # NoRec) => wrec[v] # wrec[w]
    /\ Range(storeLog) \subseteq Range(deqLog)

\* C35 witness: after start(), stop() and start() two workers are alive at once;
\* both records left the queue and were passed to store_data, the second by the
\* worker of the second start(), whose call is in progress, while the worker of
\* the first is back at its loop test
C35_Witness ==
    /\ gen = MaxStarts
    /\ running
    /\ \A w \in Workers : Alive(w)
    /\ Len(storeLog) = MaxRecords
    /\ Len(deqLog) = MaxRecords
    /\ wpc[MaxStarts] = "store"
    /\ wrec[MaxStarts] = storeLog[MaxRecords]
    /\ wpc[1] = "while"

\* C33: every record that is put on the queue is eventually passed to store_data,
\* whenever it was put: while the agent runs, after stop(), or after the drain
\* worker has found the queue empty and exited
C33_EnqueuedEventuallyStored ==
    \A r \in Records : (r \in Range(data_queue)) ~> (r \in Range(storeLog))

\* C36: two start() calls made at the same time on a stopped agent start one drain
\* worker and one loop per enabled entry between them: at most one of the calls
\* gets past the running check, at no moment has more than one worker or more than
\* one loop of an entry been started, and when both calls have returned exactly one
\* worker and one loop per enabled entry have been started
C36_ConcurrentStartsStartOnce ==
    /\ Cardinality({c \in Callers : tpc[c] \in {"set", "proc", "coll"}}) <= 1
    /\ gen <= 1
    /\ Cardinality({w \in Workers : wpc[w] # "unborn"}) <= 1
    /\ \A k \in Keys : Cardinality({g \in Gens : lpc[<<g, k>>] # "unborn"}) <= 1
    /\ (\A c \in Callers : tpc[c] = "returned") =>
          /\ Cardinality({w \in Workers : wpc[w] # "unborn"}) = 1
          /\ \A k \in Keys :
                Config[k] => Cardinality({g \in Gens : lpc[<<g, k>>] # "unborn"}) = 1

====
